---- MODULE Spec2Model ----
(***************************************************************************)
(* Model of the fiber_tracing middleware (src/main.go): the construction   *)
(* of the middleware by NewWithConfig / New and the per-request function   *)
(* it returns, run by one or several requests at a time.                   *)
(*                                                                         *)
(* The tracer and the framework are external.  The tracer is modelled by   *)
(* the calls the adapter makes on it: `spans` holds, for every span        *)
(* handed out by StartSpan, its operation name, its parent reference, the  *)
(* tags set on it and the number of Finish calls; `log` holds, per         *)
(* request, the sequence of calls the per-request function has made.       *)
(***************************************************************************)
EXTENDS Integers, Sequences, FiniteSets, TLC

\* Number of requests the server is given in the concurrent specification.
NumRequests == 2

Requests == 1..NumRequests

\* ---------------------------------------------------------------- constants

DefaultParentSpanKey == "#defaultTracingParentSpanKey"
DefaultComponentName == "fiber/v2"

StatusOK == 200
StatusInternalServerError == 500
\* uint16(status): the width of ext.HTTPStatusCode
Uint16Range == 65536

CustomParentSpanKey == "appSpanKey"
CustomComponentName == "my-service"
StoreKeys == {DefaultParentSpanKey, CustomParentSpanKey}

NoSpan == 0

\* ------------------------------------------------------------------- errors

\* An error value: kind "nil" is the nil error; "generic" is an error that is
\* no *fiber.Error; "fiber" is a *fiber.Error; "wrapped" is an error whose
\* chain holds a *fiber.Error (errors.As finds it).  text is err.Error(),
\* code and message are the fields of the *fiber.Error found in the chain.
NilErr == [kind |-> "nil", code |-> 0, message |-> "", text |-> ""]
GenericErr == [kind |-> "generic", code |-> 0, message |-> "", text |-> "boom"]
FiberErr(c, m) == [kind |-> "fiber", code |-> c, message |-> m, text |-> m]
WrappedErr(c, m) == [kind |-> "wrapped", code |-> c, message |-> m, text |-> "load: " \o m]

HandlerErrors ==
    { NilErr, GenericErr,
      FiberErr(0, "no code"), FiberErr(200, "OK"), FiberErr(404, "Not Found"),
      FiberErr(503, "Service Unavailable"), WrappedErr(404, "Not Found") }

\* Response statuses a handler chain leaves on the response.
HandlerStatuses == {200, 404, 500}

\* What the request headers carry: no trace context, a malformed one, or one
\* injected by the same tracing client.
HeaderKinds == {"none", "malformed", "valid"}

\* ------------------------------------------------------------ configuration

\* Config (src/main.go:46-70).  A nil function or tracer is "nil", an empty
\* string is "".
RawConfigs ==
    [ Tracer : {"nil", "tracer"},
      ParentSpanKey : {"", CustomParentSpanKey},
      ComponentName : {"", CustomComponentName},
      OperationName : {"nil", "custom"},
      Filter : {"nil", "filter"},
      Modify : {"nil", "custom"} ]

DefaultConfig ==
    [ Tracer |-> "nil",
      ParentSpanKey |-> DefaultParentSpanKey,
      ComponentName |-> DefaultComponentName,
      OperationName |-> "default",
      Filter |-> "nil",
      Modify |-> "default" ]

NewWithConfig(config) ==
    [ Tracer |-> IF config.Tracer = "nil" THEN "noop" ELSE config.Tracer,
      ParentSpanKey |-> IF config.ParentSpanKey = ""
                          THEN DefaultConfig.ParentSpanKey ELSE config.ParentSpanKey,
      ComponentName |-> IF config.ComponentName = ""
                          THEN DefaultConfig.ComponentName ELSE config.ComponentName,
      OperationName |-> IF config.OperationName = "nil"
                          THEN DefaultConfig.OperationName ELSE config.OperationName,
      Filter |-> config.Filter,
      Modify |-> IF config.Modify = "nil" THEN DefaultConfig.Modify ELSE config.Modify ]

New(tracer) == NewWithConfig([DefaultConfig EXCEPT !.Tracer = tracer])

\* Every middleware instance the three constructors can build.
\* The instance NewWithJaegerTracer installs: Config{Tracer: tracer}.
JaegerInstance ==
    NewWithConfig([Tracer |-> "tracer", ParentSpanKey |-> "", ComponentName |-> "",
                   OperationName |-> "nil", Filter |-> "nil", Modify |-> "nil"])

Instances ==
    {NewWithConfig(c) : c \in RawConfigs}
        \cup {New(t) : t \in {"nil", "tracer"}}
        \cup {JaegerInstance}

\* ------------------------------------------------------------------ request

Method == "GET"
Path == "/widgets"
OriginalURL == "/widgets?page=2"
Hostname == "example.org"
IP == "10.0.0.7"

DefaultOperationName == <<"HTTP ", Method, " URL: ", Path>>

OperationNameOf(c) ==
    IF c.OperationName = "default" THEN DefaultOperationName ELSE <<"custom-op">>

\* ------------------------------------------------------------------- tracer

\* tr.Extract(HTTPHeaders, carrier): TRUE when it returns a span context (err
\* == nil).  The NoopTracer finds no context in any carrier; a tracing client
\* finds the one its own Inject wrote.
Extract(tracer, hdr) == tracer = "tracer" /\ hdr = "valid"

\* Mutant of StartSpanReference: the extracted context is dropped.
StartSpanAlwaysRoot(extracted) == "root"

\* The reference StartSpan is given: none (a root span) when Extract failed,
\* ext.RPCServerOption(ctx) when it succeeded.
StartSpanReference(extracted) == IF extracted THEN "rpc-server" ELSE "root"

NewSpan(opName, reference, r) ==
    [ op |-> opName, parent |-> reference, tags |-> <<>>, finished |-> 0, owner |-> r ]

SetTag(sp, k, v) == [sp EXCEPT !.tags = (k :> v) @@ @]

HasTag(sp, k) == k \in DOMAIN sp.tags

Finish(sp) == [sp EXCEPT !.finished = @ + 1]

\* DefaultConfig.Modify
DefaultModify(sp) ==
    LET s1 == SetTag(sp, "http.method", Method)
        s2 == SetTag(s1, "http.url", OriginalURL)
        s3 == SetTag(s2, "component", DefaultComponentName)
        s4 == SetTag(s3, "http.remote_addr", IP)
        s5 == SetTag(s4, "http.path", Path)
    IN  SetTag(s5, "http.host", Hostname)

\* A Modify hook supplied by the application.
CustomModify(sp) == SetTag(sp, "app.annotated", TRUE)

Modify(c, sp) == IF c.Modify = "default" THEN DefaultModify(sp) ELSE CustomModify(sp)

\* ------------------------------------------------------- the deferred function

\* errors.As(err, &httpError)
IsFiberError(e) == e.kind \in {"fiber", "wrapped"}

\* The value of the error.message tag (set only when err != nil).
ErrorMessage(e) == IF IsFiberError(e) THEN e.message ELSE e.text

\* Mutant of ReconcileStatus: a status still 200 is not replaced by 500.
ReconcileStatusNoForce(status, e) ==
    IF e.kind # "nil" /\ IsFiberError(e) /\ e.code # 0 THEN e.code ELSE status

\* status after the reconciliation with err.
ReconcileStatus(status, e) ==
    IF e.kind = "nil"
      THEN status
      ELSE LET s1 == IF IsFiberError(e) /\ e.code # 0 THEN e.code ELSE status
           IN  IF s1 = StatusOK THEN StatusInternalServerError ELSE s1

Uint16(x) == x % Uint16Range

\* Mutant of ErrorFlagged: the threshold is exclusive.
ErrorFlaggedAbove(status) == status > StatusInternalServerError

\* ext.Error.Set(span, true) is called
ErrorFlagged(status) == status >= StatusInternalServerError

\* Mutant of Deferred: Finish is reached only when the handler chain returned
\* no error.
DeferredNoFinishOnError(sp, st, e) ==
    LET status == ReconcileStatus(st, e)
        s1 == IF e.kind # "nil" THEN SetTag(sp, "error.message", ErrorMessage(e)) ELSE sp
        s2 == SetTag(s1, "http.status_code", Uint16(status))
        s3 == IF ErrorFlagged(status) THEN SetTag(s2, "error", TRUE) ELSE s2
    IN  IF e.kind # "nil" THEN s3 ELSE Finish(s3)

\* The deferred function applied to the span: tags, error flag, Finish.
Deferred(sp, st, e) ==
    LET status == ReconcileStatus(st, e)
        s1 == IF e.kind # "nil" THEN SetTag(sp, "error.message", ErrorMessage(e)) ELSE sp
        s2 == SetTag(s1, "http.status_code", Uint16(status))
        s3 == IF ErrorFlagged(status) THEN SetTag(s2, "error", TRUE) ELSE s2
    IN  Finish(s3)

\* The calls the deferred function makes, in order.
DeferredCalls(st, e) ==
    (IF e.kind # "nil" THEN <<"SetTag">> ELSE <<>>)
    \o <<"SetTag">>
    \o (IF ErrorFlagged(ReconcileStatus(st, e)) THEN <<"SetTag">> ELSE <<>>)
    \o <<"Finish">>

\* -------------------------------------------------------------------- state

VARIABLES
    cfg,        \* the configuration captured by the per-request function
    pc,         \* per request: the position of the per-request function
    hdr,        \* per request: what the request headers carry
    filtered,   \* per request: cfg.Filter is set and returned true
    span,       \* per request: local variable span (an index into spans)
    err,        \* per request: local variable err
    nextRet,    \* per request: how ctx.Next() ended
    ret,        \* per request: how the per-request function ended
    respStatus, \* per request: ctx.Response().StatusCode()
    locals,     \* per request: the request-scoped store (ctx.Locals)
    observed,   \* per request: what the handler chain read under the key
    spans,      \* the tracer: every span StartSpan handed out
    log         \* per request: the calls the per-request function made

vars == <<cfg, pc, hdr, filtered, span, err, nextRet, ret, respStatus,
          locals, observed, spans, log>>

NoReturn == [kind |-> "none", err |-> NilErr]
Panicked == [kind |-> "panic", err |-> NilErr]
Returned(e) == [kind |-> "returned", err |-> e]

InitRequests ==
    /\ pc = [r \in Requests |-> "off"]
    /\ hdr = [r \in Requests |-> "none"]
    /\ filtered = [r \in Requests |-> FALSE]
    /\ span = [r \in Requests |-> NoSpan]
    /\ err = [r \in Requests |-> NilErr]
    /\ nextRet = [r \in Requests |-> NoReturn]
    /\ ret = [r \in Requests |-> NoReturn]
    /\ respStatus = [r \in Requests |-> StatusOK]
    /\ locals = [r \in Requests |-> [k \in StoreKeys |-> NoSpan]]
    /\ observed = [r \in Requests |-> NoSpan]
    /\ spans = <<>>
    /\ log = [r \in Requests |-> <<>>]

\* Any middleware instance the constructors can build.
Init ==
    /\ cfg \in Instances
    /\ InitRequests

\* The instances with a tracing client and a filter, and defaults for the
\* operation name, the component name and the modify hook.
InitConc ==
    /\ cfg \in {c \in Instances : /\ c.Tracer = "tracer"
                                  /\ c.Filter = "filter"
                                  /\ c.OperationName = "default"
                                  /\ c.ComponentName = DefaultComponentName
                                  /\ c.Modify = "default"}
    /\ InitRequests

\* ------------------------------------------------- the per-request function

Logged(r, calls) == [log EXCEPT ![r] = @ \o calls]

\* The framework hands request r, with headers of kind h, to the middleware.
Arrive(r, h) ==
    /\ pc[r] = "off"
    /\ \A q \in Requests : q < r => pc[q] # "off"
    /\ pc' = [pc EXCEPT ![r] = "filter"]
    /\ hdr' = [hdr EXCEPT ![r] = h]
    /\ UNCHANGED <<cfg, filtered, span, err, nextRet, ret, respStatus, locals,
                   observed, spans, log>>

\* Mutant of FilterSkips: the filter's answer is ignored.
FilterNeverSkips(c, b) == FALSE

\* cfg.Filter != nil && cfg.Filter(ctx), where b is what cfg.Filter returns
FilterSkips(c, b) == c.Filter # "nil" /\ b

FilterStep(r) ==
    /\ pc[r] = "filter"
    /\ \E b \in BOOLEAN :
         /\ filtered' = [filtered EXCEPT ![r] = cfg.Filter # "nil" /\ b]
         /\ pc' = [pc EXCEPT ![r] = IF FilterSkips(cfg, b) THEN "skip_next" ELSE "startspan"]
    /\ log' = Logged(r, IF cfg.Filter # "nil" THEN <<"Filter">> ELSE <<>>)
    /\ UNCHANGED <<cfg, hdr, span, err, nextRet, ret, respStatus, locals,
                   observed, spans>>

\* operation name, header carrier, Extract, StartSpan
StartSpan(r) ==
    /\ pc[r] = "startspan"
    /\ spans' = Append(spans, NewSpan(OperationNameOf(cfg),
                         StartSpanReference(Extract(cfg.Tracer, hdr[r])), r))
    /\ span' = [span EXCEPT ![r] = Len(spans) + 1]
    /\ log' = Logged(r, <<"OperationName", "Extract", "StartSpan">>)
    /\ pc' = [pc EXCEPT ![r] = "modify"]
    /\ UNCHANGED <<cfg, hdr, filtered, err, nextRet, ret, respStatus, locals, observed>>

\* cfg.Modify(ctx, span).  A hook supplied by the application may panic; the
\* deferred function is not registered yet, so the panic leaves the function
\* at once.
ModifyStep(r) ==
    /\ pc[r] = "modify"
    /\ log' = Logged(r, <<"Modify">>)
    /\ \E panics \in BOOLEAN :
         IF cfg.Modify = "custom" /\ panics
           THEN /\ pc' = [pc EXCEPT ![r] = "done"]
                /\ ret' = [ret EXCEPT ![r] = Panicked]
                /\ UNCHANGED spans
           ELSE /\ pc' = [pc EXCEPT ![r] = "locals"]
                /\ spans' = [spans EXCEPT ![span[r]] = Modify(cfg, @)]
                /\ UNCHANGED ret
    /\ UNCHANGED <<cfg, hdr, filtered, span, err, nextRet, respStatus, locals, observed>>

\* Mutant of StoreWrite: the span is stored under the default key, whatever
\* key is configured.
StoreWriteDefaultKey(store, r, key, value) ==
    [store EXCEPT ![r][DefaultParentSpanKey] = value]

\* Mutant of StoreWrite: one store shared by all requests.
StoreWriteShared(store, r, key, value) ==
    [q \in DOMAIN store |-> [store[q] EXCEPT ![key] = value]]

\* ctx.Locals(key, value) on the store of request r
StoreWrite(store, r, key, value) == [store EXCEPT ![r][key] = value]

\* ctx.Locals(key) on the store of request r
StoreRead(store, r, key) == store[r][key]

\* var err error; defer func() {...}(); ctx.Locals(cfg.ParentSpanKey, span)
SetLocals(r) ==
    /\ pc[r] = "locals"
    /\ locals' = StoreWrite(locals, r, cfg.ParentSpanKey, span[r])
    /\ log' = Logged(r, <<"Locals">>)
    /\ pc' = [pc EXCEPT ![r] = "next"]
    /\ UNCHANGED <<cfg, hdr, filtered, span, err, nextRet, ret, respStatus,
                   observed, spans>>

\* ctx.Next() is called: the handler chain starts running.
CallNext(r) ==
    /\ pc[r] \in {"next", "skip_next"}
    /\ log' = Logged(r, <<"Next">>)
    /\ pc' = [pc EXCEPT ![r] = IF pc[r] = "next" THEN "handler" ELSE "skip_handler"]
    /\ UNCHANGED <<cfg, hdr, filtered, span, err, nextRet, ret, respStatus,
                   locals, observed, spans>>

\* The handler chain reads the store under the configured key, leaves status
\* st on the response and returns e.
HandlerReturns(r, st, e) ==
    /\ pc[r] \in {"handler", "skip_handler"}
    /\ observed' = [observed EXCEPT ![r] = StoreRead(locals, r, cfg.ParentSpanKey)]
    /\ respStatus' = [respStatus EXCEPT ![r] = st]
    /\ nextRet' = [nextRet EXCEPT ![r] = Returned(e)]
    /\ pc' = [pc EXCEPT ![r] = IF pc[r] = "handler" THEN "after_next" ELSE "skip_after"]
    /\ UNCHANGED <<cfg, hdr, filtered, span, err, ret, locals, spans, log>>

\* The handler chain reads the store, leaves status st and panics.
HandlerPanics(r, st) ==
    /\ pc[r] \in {"handler", "skip_handler"}
    /\ observed' = [observed EXCEPT ![r] = StoreRead(locals, r, cfg.ParentSpanKey)]
    /\ respStatus' = [respStatus EXCEPT ![r] = st]
    /\ nextRet' = [nextRet EXCEPT ![r] = Panicked]
    /\ pc' = [pc EXCEPT ![r] = IF pc[r] = "handler" THEN "after_next" ELSE "skip_after"]
    /\ UNCHANGED <<cfg, hdr, filtered, span, err, ret, locals, spans, log>>

\* return ctx.Next() on the skip path: the value, or the panic, of the handler
\* chain is the function's own.
ReturnSkipped(r) ==
    /\ pc[r] = "skip_after"
    /\ ret' = [ret EXCEPT ![r] = nextRet[r]]
    /\ pc' = [pc EXCEPT ![r] = "done"]
    /\ UNCHANGED <<cfg, hdr, filtered, span, err, nextRet, respStatus, locals,
                   observed, spans, log>>

\* Mutant of ReturnValue: the handler chain's error is swallowed.
ReturnNil(e) == NilErr

\* The value of `return err`: the deferred function does not change it.
ReturnValue(e) == e

\* err = ctx.Next(); return err, and the deferred function on the way out
ReturnTraced(r) ==
    /\ pc[r] = "after_next"
    /\ nextRet[r].kind = "returned"
    /\ err' = [err EXCEPT ![r] = nextRet[r].err]
    /\ spans' = [spans EXCEPT ![span[r]] = Deferred(@, respStatus[r], nextRet[r].err)]
    /\ log' = Logged(r, DeferredCalls(respStatus[r], nextRet[r].err))
    /\ ret' = [ret EXCEPT ![r] = Returned(ReturnValue(nextRet[r].err))]
    /\ pc' = [pc EXCEPT ![r] = "done"]
    /\ UNCHANGED <<cfg, hdr, filtered, span, nextRet, respStatus, locals, observed>>

\* A panic of the handler chain unwinds through the function: err is still
\* nil when the deferred function runs.
Unwind(r) ==
    /\ pc[r] = "after_next"
    /\ nextRet[r].kind = "panic"
    /\ spans' = [spans EXCEPT ![span[r]] = Deferred(@, respStatus[r], err[r])]
    /\ log' = Logged(r, DeferredCalls(respStatus[r], err[r]))
    /\ ret' = [ret EXCEPT ![r] = Panicked]
    /\ pc' = [pc EXCEPT ![r] = "done"]
    /\ UNCHANGED <<cfg, hdr, filtered, span, err, nextRet, respStatus, locals, observed>>

\* ------------------------------------------------------------ specifications

\* One request, every kind of header and every handler outcome.
Next ==
    \E r \in {q \in Requests : \A p \in Requests : q <= p} :
        \/ \E h \in HeaderKinds : Arrive(r, h)
        \/ FilterStep(r)
        \/ StartSpan(r)
        \/ ModifyStep(r)
        \/ SetLocals(r)
        \/ CallNext(r)
        \/ \E st \in HandlerStatuses, e \in HandlerErrors : HandlerReturns(r, st, e)
        \/ \E st \in HandlerStatuses : HandlerPanics(r, st)
        \/ ReturnSkipped(r)
        \/ ReturnTraced(r)
        \/ Unwind(r)

Spec == Init /\ [][Next]_vars

\* The handler outcomes and headers of the concurrent requests.
ConcHeaderKinds == {"none", "valid"}
ConcStatuses == {200}
ConcErrors == {NilErr, GenericErr, FiberErr(404, "Not Found")}

\* NumRequests requests handled concurrently by the same instance.
NextConc ==
    \E r \in Requests :
        \/ \E h \in ConcHeaderKinds : Arrive(r, h)
        \/ FilterStep(r)
        \/ StartSpan(r)
        \/ ModifyStep(r)
        \/ SetLocals(r)
        \/ CallNext(r)
        \/ \E st \in ConcStatuses, e \in ConcErrors : HandlerReturns(r, st, e)
        \/ \E st \in ConcStatuses : HandlerPanics(r, st)
        \/ ReturnSkipped(r)
        \/ ReturnTraced(r)
        \/ Unwind(r)

SpecConc == InitConc /\ [][NextConc]_vars

\* ------------------------------------------------------------------- claims

Count(seq, x) == Cardinality({i \in DOMAIN seq : seq[i] = x})

SpansOf(r) == {i \in DOMAIN spans : spans[i].owner = r}

\* The span of request r (when it has started one).
SpanOf(r) == spans[span[r]]

StatusTag(sp) == sp.tags["http.status_code"]

\* The handler chain of request r ran on the traced path and returned.
TracedReturned(r) ==
    pc[r] = "done" /\ ~filtered[r] /\ nextRet[r].kind = "returned"

\* C1: on a request the filter does not skip, whatever the handler chain
\* returned (nil with status 200, nil with another status, a *fiber.Error, a
\* generic error), StartSpan was called exactly once and Finish exactly once,
\* on that span.
C1_OneSpanStartedAndFinished ==
    \A r \in Requests :
        TracedReturned(r) =>
            /\ Count(log[r], "StartSpan") = 1
            /\ Count(log[r], "Finish") = 1
            /\ SpansOf(r) = {span[r]}
            /\ SpanOf(r).finished = 1

C1_Witness ==
    \E r \in Requests :
        /\ TracedReturned(r)
        /\ nextRet[r].err = FiberErr(404, "Not Found")
        /\ respStatus[r] = 500
        /\ SpanOf(r).finished = 1

\* C2: when the per-request function has ended, by a return or by a panic,
\* every span it started is finished exactly once.
C2_NoSpanLeftUnfinished ==
    \A r \in Requests :
        pc[r] = "done" /\ span[r] # NoSpan => SpanOf(r).finished = 1

\* C3: on the traced path the function returns the value ctx.Next() returned,
\* and it returns a value only when ctx.Next() did.
C3_ReturnsWhatNextReturned ==
    \A r \in Requests :
        /\ TracedReturned(r) => ret[r] = nextRet[r]
        /\ ~filtered[r] /\ ret[r].kind = "returned" => ret[r] = nextRet[r]

C3_Witness ==
    \E r \in Requests :
        /\ TracedReturned(r)
        /\ cfg.Tracer = "noop"
        /\ hdr[r] = "malformed"
        /\ ret[r] = Returned(GenericErr)

\* C4: on a request the filter skips, no tracer call is made and nothing is
\* written to the store; the next handler is called exactly once and its
\* return value is the function's return value.
C4_FilteredRequestIsUntraced ==
    \A r \in Requests :
        filtered[r] =>
            /\ span[r] = NoSpan
            /\ SpansOf(r) = {}
            /\ \A k \in StoreKeys : locals[r][k] = NoSpan
            /\ \A i \in DOMAIN log[r] : log[r][i] \in {"Filter", "Next"}
            /\ Count(log[r], "Next") <= 1
            /\ pc[r] = "done" => Count(log[r], "Next") = 1 /\ ret[r] = nextRet[r]

C4_Witness ==
    \E r \in Requests :
        /\ filtered[r]
        /\ pc[r] = "done"
        /\ ret[r] = Returned(GenericErr)
        /\ log[r] = <<"Filter", "Next">>

\* C5: when the handler chain returned an error, the status tag is never 200
\* and an error.message tag is set; when the error is generic, or structured
\* with code 0, and the response status is 200, the status tag is 500 and
\* error.message is the error's text.
C5_ErrorNeverTaggedOK ==
    \A r \in Requests :
        TracedReturned(r) /\ nextRet[r].err.kind # "nil" =>
            LET e == nextRet[r].err
                sp == SpanOf(r)
            IN  /\ HasTag(sp, "http.status_code")
                /\ StatusTag(sp) # 200
                /\ HasTag(sp, "error.message")
                /\ (e.kind = "generic" \/ e.code = 0) /\ respStatus[r] = 200 =>
                       /\ StatusTag(sp) = 500
                       /\ sp.tags["error.message"] =
                              (IF e.kind = "generic" THEN e.text ELSE e.message)

C5_Witness ==
    \E r \in Requests :
        /\ TracedReturned(r)
        /\ nextRet[r].err = GenericErr
        /\ respStatus[r] = 200
        /\ StatusTag(SpanOf(r)) = 500
        /\ SpanOf(r).tags["error.message"] = "boom"

\* The span of r carries a status tag (the deferred function has run).
StatusTagged(r) == span[r] # NoSpan /\ HasTag(SpanOf(r), "http.status_code")

\* C6 as stated: a structured error with a nonzero code gives that code as
\* the status tag, whatever the response status; the error flag is set
\* exactly when the recorded status is at least 500.
C6_StatusTagIsErrorCode ==
    \A r \in Requests :
        /\ TracedReturned(r) /\ nextRet[r].err.kind \in {"fiber", "wrapped"}
               /\ nextRet[r].err.code # 0
             => StatusTag(SpanOf(r)) = nextRet[r].err.code
        /\ StatusTagged(r) => (HasTag(SpanOf(r), "error") <=> StatusTag(SpanOf(r)) >= 500)

\* C6 amended: a structured error with a code other than 0 and 200 gives that
\* code as the status tag, whatever the response status; code 200 gives 500;
\* the error flag is set exactly when the recorded status is at least 500.
C6_StatusTagIsErrorCodeUnless200 ==
    \A r \in Requests :
        /\ TracedReturned(r) /\ nextRet[r].err.kind \in {"fiber", "wrapped"}
             => /\ nextRet[r].err.code \notin {0, 200}
                    => StatusTag(SpanOf(r)) = nextRet[r].err.code
                /\ nextRet[r].err.code = 200 => StatusTag(SpanOf(r)) = 500
        /\ StatusTagged(r) => (HasTag(SpanOf(r), "error") <=> StatusTag(SpanOf(r)) >= 500)

C6_Witness ==
    \E r \in Requests :
        /\ TracedReturned(r)
        /\ nextRet[r].err = FiberErr(404, "Not Found")
        /\ respStatus[r] = 500
        /\ StatusTag(SpanOf(r)) = 404
        /\ ~HasTag(SpanOf(r), "error")

\* The modify hook of the configuration has annotated sp.
Annotated(sp) ==
    IF cfg.Modify = "default"
      THEN {"http.method", "http.url", "component", "http.remote_addr",
            "http.path", "http.host"} \subseteq DOMAIN sp.tags
      ELSE HasTag(sp, "app.annotated")

\* C7: while the handler chain of a traced request runs, the store holds under
\* the configured key the span started for this request, annotated by the
\* modify hook and not finished; until the handler chain has ended, that span
\* has no status tag, no error flag and no Finish.
C7_SpanInStoreWhileHandlerRuns ==
    \A r \in Requests :
        /\ pc[r] = "handler" =>
               LET id == locals[r][cfg.ParentSpanKey]
               IN  /\ id # NoSpan
                   /\ id = span[r]
                   /\ spans[id].owner = r
                   /\ Annotated(spans[id])
                   /\ spans[id].finished = 0
        /\ pc[r] \in {"modify", "locals", "next", "handler", "after_next"} =>
               /\ ~HasTag(SpanOf(r), "http.status_code")
               /\ ~HasTag(SpanOf(r), "error")
               /\ SpanOf(r).finished = 0
        /\ pc[r] = "after_next" => observed[r] = span[r]

C7_Witness ==
    \E r \in Requests :
        /\ pc[r] = "handler"
        /\ cfg.ParentSpanKey = CustomParentSpanKey
        /\ cfg.Modify = "custom"
        /\ locals[r][CustomParentSpanKey] = span[r]
        /\ span[r] # NoSpan

\* Every request's handler chain has read, and has under the key, the span of
\* its own request, and the deferred function has tagged and finished the
\* span of its own request.
Isolation ==
    /\ \A r \in Requests :
           /\ pc[r] \in {"handler", "after_next"} =>
                  /\ locals[r][cfg.ParentSpanKey] = span[r]
                  /\ SpanOf(r).owner = r
           /\ pc[r] \in {"after_next", "done"} /\ ~filtered[r] =>
                  observed[r] = span[r] /\ SpanOf(r).owner = r
           /\ pc[r] \in {"skip_handler", "skip_after", "done"} /\ filtered[r] =>
                  observed[r] = NoSpan
           /\ pc[r] = "done" /\ ~filtered[r] =>
                  /\ SpanOf(r).finished = 1
                  /\ StatusTag(SpanOf(r)) = Uint16(ReconcileStatus(respStatus[r], err[r]))
    /\ \A i \in DOMAIN spans :
           /\ spans[i].finished <= 1
           /\ spans[i].finished = 1 => pc[spans[i].owner] = "done"
           /\ span[spans[i].owner] = i

\* C8: with concurrent requests, in every interleaving each handler chain
\* reads its own request's span, status tag and Finish go to the request's own
\* span, and no step writes the configuration.
C8_ConcurrentRequestsIsolated == [][cfg' = cfg /\ Isolation']_vars

C8_Witness ==
    \E r, q \in Requests :
        /\ r < q
        /\ pc[r] = "done" /\ pc[q] = "done"
        /\ ~filtered[r] /\ ~filtered[q]
        /\ span[q] < span[r]
        /\ StatusTag(SpanOf(r)) # StatusTag(SpanOf(q))

\* C9: extraction fails on a request without a valid trace context (and with
\* the no-op tracer) and the span is a root span; it succeeds on a context
\* the tracing client injected and the span is an RPC-server continuation.
\* Either way StartSpan is called once and no error is returned that the
\* handler chain did not return.
C9_RootOrContinuation ==
    \A r \in Requests :
        span[r] # NoSpan =>
            /\ hdr[r] \in {"none", "malformed"} => SpanOf(r).parent = "root"
            /\ cfg.Tracer = "noop" => SpanOf(r).parent = "root"
            /\ hdr[r] = "valid" /\ cfg.Tracer = "tracer" => SpanOf(r).parent = "rpc-server"
            /\ Count(log[r], "Extract") = 1
            /\ Count(log[r], "StartSpan") = 1
            /\ ret[r].kind = "returned" => ret[r] = nextRet[r]

C9_Witness ==
    \E r \in Requests :
        /\ pc[r] = "done"
        /\ span[r] # NoSpan
        /\ cfg.Tracer = "tracer"
        /\ hdr[r] = "valid"
        /\ SpanOf(r).parent = "rpc-server"
        /\ ret[r] = Returned(NilErr)

\* C10: with the default modify hook, the component tag of a span is the
\* configured component name.
C10_ComponentTagIsConfiguredName ==
    \A r \in Requests :
        span[r] # NoSpan /\ cfg.Modify = "default" /\ HasTag(SpanOf(r), "component") =>
            SpanOf(r).tags["component"] = cfg.ComponentName

====
